---- MODULE Spec2Model ----
(***************************************************************************)
(* A model of storage-bigtable/src/lib.rs: the three tables `blocks`,     *)
(* `tx` and `tx-by-addr`, the slot key codec, the upload protocol of      *)
(* LedgerStorage::upload_confirmed_block and the read operations of       *)
(* LedgerStorage.                                                          *)
(*                                                                         *)
(* A Slot (u64) is four 16-bit limbs, most significant first, so that     *)
(* Slot::MAX and the bitwise complement are exact.  A key is the sequence *)
(* of the character codes of its text, compared lexically as the store    *)
(* compares row keys.                                                      *)
(***************************************************************************)
EXTENDS Integers, Sequences, FiniteSets, TLC

\* ---------------------------------------------------------------- bounds
\* Low slots 0 .. NumLowSlots-1 are uploaded to, besides Slot::MAX.
NumLowSlots == 2
\* Distinct (slot, block) pairs handed to upload_confirmed_block in a run.
MaxUploads == 2
\* Largest `limit` handed to the read operations.
MaxCalls == 2         \* upload calls in a logged run
MaxLimit == 2

\* ------------------------------------------------------------- u64 slots
LimbBase == 16 * 16 * 16 * 16
LimbMax == LimbBase - 1

SlotOf(n) == <<0, 0, 0, n>>
SLOT_MAX == <<LimbMax, LimbMax, LimbMax, LimbMax>>
SLOT_ZERO == SlotOf(0)

\* A u32 in-block index as two limbs; u32::MAX.
U32(i) == <<i \div LimbBase, i % LimbBase>>
U32_MAX == <<LimbMax, LimbMax>>

\* !slot on a u64
Not(slot) == [i \in 1..4 |-> LimbMax - slot[i]]

RECURSIVE SeqLess(_, _)
\* a < b for two sequences of integers, compared element by element, a proper
\* prefix being smaller: the order of u64 limbs and of row keys alike.
SeqLess(a, b) ==
    IF b = <<>> THEN FALSE
    ELSE IF a = <<>> THEN TRUE
    ELSE IF Head(a) # Head(b) THEN Head(a) < Head(b)
    ELSE SeqLess(Tail(a), Tail(b))

SlotLess(a, b) == SeqLess(a, b)
KeyLess(a, b) == SeqLess(a, b)
KeyLeq(a, b) == a = b \/ SeqLess(a, b)

\* ------------------------------------------------------------- key codec
\* The character of one hexadecimal digit, as {:x} prints it.
HexChar(d) == IF d < 10 THEN 48 + d ELSE 87 + d

\* One limb as four zero-padded hexadecimal digits.
Hex4(limb) ==
    << HexChar(limb \div (16 * 16 * 16)),
       HexChar((limb \div (16 * 16)) % 16),
       HexChar((limb \div 16) % 16),
       HexChar(limb % 16) >>

\* The key with the lowest four digits first.
slot_to_key_low_digits_first(slot) ==
    Hex4(slot[4]) \o Hex4(slot[3]) \o Hex4(slot[2]) \o Hex4(slot[1])

slot_to_key(slot) ==
    Hex4(slot[1]) \o Hex4(slot[2]) \o Hex4(slot[3]) \o Hex4(slot[4])

\* The value of a hexadecimal digit character, -1 when it is none
\* (from_str_radix(_, 16) takes either case).
HexVal(c) ==
    IF c >= 48 /\ c <= 57 THEN c - 48
    ELSE IF c >= 97 /\ c <= 102 THEN c - 87
    ELSE IF c >= 65 /\ c <= 70 THEN c - 55
    ELSE 0 - 1

None == [some |-> FALSE]
Some(v) == [some |-> TRUE, val |-> v]

\* key_to_slot: None on a key that does not parse as a u64.
key_to_slot(key) ==
    IF Len(key) = 0 \/ Len(key) > 16 \/ \E i \in 1..Len(key) : HexVal(key[i]) < 0
    THEN None
    ELSE LET pad == [i \in 1..(16 - Len(key)) |-> 48] \o key
             limb(j) == HexVal(pad[4 * j - 3]) * (16 * 16 * 16)
                        + HexVal(pad[4 * j - 2]) * (16 * 16)
                        + HexVal(pad[4 * j - 1]) * 16
                        + HexVal(pad[4 * j])
         IN Some(<<limb(1), limb(2), limb(3), limb(4)>>)

\* ------------------------------------------------- addresses, transactions
\* Addresses by their text: "X", "Y", and a sysvar id "S".
AddrX == <<88>>
AddrY == <<89>>
AddrSysvar == <<83>>
Addresses == {AddrX, AddrY}

is_sysvar_id(address) == address = AddrSysvar

\* Signatures; a signature fixes the transaction it signs.
Sigs == {1, 2, 3}

\* transaction.message.account_keys of the transaction signed by sig
account_keys(sig) ==
    CASE sig = 1 -> <<AddrX>>
      [] sig = 2 -> <<AddrX, AddrSysvar>>
      [] sig = 3 -> <<AddrY, AddrX>>
      [] OTHER -> <<AddrY>>

\* meta.err of the transaction signed by sig
meta_err(sig) == IF sig = 2 THEN Some("InstructionError") ELSE None

\* A confirmed block is the sequence of its transactions' first signatures.
\* The blocks uploaded: an empty one, one of a single transaction, and one of
\* three transactions that all reference X.
Blocks == {<<>>, <<2>>, <<1, 2, 3>>}

\* The blocks uploaded where the calls are logged: those, and two blocks of
\* one transaction each that share an address and no signature.
UploadBlocks == Blocks \cup {<<1>>, <<3>>}

Slots == {SlotOf(n) : n \in 0..(NumLowSlots - 1)} \cup {SLOT_MAX}

\* ------------------------------------------------------------------ state
VARIABLES
    blocks,      \* table `blocks`: slot key -> stored block
    tx,          \* table `tx`: signature -> TransactionInfo
    tx_by_addr,  \* table `tx-by-addr`: "<address>/<key of !slot>" -> entries
    task,        \* each upload_confirmed_block call in flight, and where it is
    uploaded,    \* per slot, the blocks an upload of that slot was started with
    ret,         \* the read call answered in this state: arguments and result
    log          \* the upload calls made, the puts they issued, what they returned

vars == <<blocks, tx, tx_by_addr, task, uploaded, ret, log>>

Tasks == {"a", "b"}

\* ----------------------------------------------------- store abstraction
RowNotFound == "RowNotFound"
Ok(v) == [ok |-> TRUE, val |-> v]
Err(e) == [ok |-> FALSE, err |-> e]

\* get_bincode_cell: the decoded row, or the store's NotFound error.
get_bincode_cell(table, key) ==
    IF key \in DOMAIN table THEN Ok(table[key]) ELSE Err(RowNotFound)

\* The table after a batched put of `cells` (key -> value).
put_bincode_cells(table, cells) ==
    [k \in (DOMAIN table) \cup (DOMAIN cells) |->
        IF k \in DOMAIN cells THEN cells[k] ELSE table[k]]

Restrict(cells, keys) == [k \in keys |-> cells[k]]

RECURSIVE SortKeys(_)
\* The keys of a set in ascending lexical order.
SortKeys(keys) ==
    IF keys = {} THEN <<>>
    ELSE LET least == CHOOSE k \in keys : \A o \in keys : KeyLeq(k, o)
         IN <<least>> \o SortKeys(keys \ {least})

Take(s, n) == SubSeq(s, 1, IF n < Len(s) THEN n ELSE Len(s))

\* get_row_keys: up to rows_limit keys in [start, end], either bound optional.
get_row_keys(table, start, end, rows_limit) ==
    Take(SortKeys({k \in DOMAIN table :
                     /\ (start.some => KeyLeq(start.val, k))
                     /\ (end.some => KeyLeq(k, end.val))}), rows_limit)

\* get_row_data: the rows of get_row_keys, as (key, data) pairs.
get_row_data(table, start, end, rows_limit) ==
    LET keys == get_row_keys(table, start, end, rows_limit)
    IN [i \in 1..Len(keys) |-> <<keys[i], table[keys[i]]>>]

\* impl From<bigtable::Error> for Error
BigTableError(e) == [kind |-> "BigTableError", inner |-> e]

\* The tx-by-addr key without the slot: one row per address.
AddrKey_without_slot(address, slot) == address \o <<47>>

\* --------------------------------------------- upload_confirmed_block
\* "<address>/<slot_to_key(!slot)>"
AddrKey(address, slot) == address \o <<47>> \o slot_to_key(Not(slot))

\* The tx cells with positions counted from one.
tx_cells_counting_from_one(slot, block) ==
    [sig \in {block[i] : i \in 1..Len(block)} |->
        LET i == CHOOSE j \in 1..Len(block) :
                     /\ block[j] = sig
                     /\ \A l \in 1..Len(block) : block[l] = sig => l <= j
        IN [slot |-> slot, index |-> i, err |-> meta_err(sig)]]

\* The tx cells of a block: signature -> TransactionInfo.  A signature that
\* occurs twice keeps its last cell, as a batch applied in order does.
tx_cells(slot, block) ==
    [sig \in {block[i] : i \in 1..Len(block)} |->
        LET i == CHOOSE j \in 1..Len(block) :
                     /\ block[j] = sig
                     /\ \A l \in 1..Len(block) : block[l] = sig => l <= j
        IN [slot |-> slot, index |-> i - 1, err |-> meta_err(sig)]]

RECURSIVE KeyEntries(_, _, _, _)
\* The entries one transaction pushes for `address`: one per occurrence of
\* the address among its account keys.
KeyEntries(keys, address, sig, index) ==
    IF keys = <<>> THEN <<>>
    ELSE (IF Head(keys) = address /\ ~is_sysvar_id(Head(keys))
          THEN <<[signature |-> sig, err |-> meta_err(sig), index |-> index]>>
          ELSE <<>>)
         \o KeyEntries(Tail(keys), address, sig, index)

RECURSIVE AddrEntries(_, _, _)
\* by_addr[address] after the transactions i.. of the block were visited.
AddrEntries(block, address, i) ==
    IF i > Len(block) THEN <<>>
    ELSE KeyEntries(account_keys(block[i]), address, block[i], i - 1)
         \o AddrEntries(block, address, i + 1)

\* The addresses that got an entry in by_addr.
by_addr_keys(block) ==
    {a \in UNION {{account_keys(block[i])[j] : j \in 1..Len(account_keys(block[i]))} :
                     i \in 1..Len(block)} : ~is_sysvar_id(a)}

\* tx_by_addr_cells: row key -> entries
tx_by_addr_cells(slot, block) ==
    LET rows == {<<AddrKey(a, slot), AddrEntries(block, a, 1)>> : a \in by_addr_keys(block)}
    IN [k \in {r[1] : r \in rows} |-> (CHOOSE r \in rows : r[1] = k)[2]]

\* blocks_cells: the one row of the block
blocks_cells(slot, block) == [k \in {slot_to_key(slot)} |-> block]

\* The cells of the put a task at `pc` issues.
CellsOf(pc, slot, block) ==
    CASE pc = "tx" -> tx_cells(slot, block)
      [] pc = "tx_by_addr" -> tx_by_addr_cells(slot, block)
      [] OTHER -> blocks_cells(slot, block)

\* The puts in the order blocks, tx, tx-by-addr: the block stored first.
After_blocks_first(pc) ==
    CASE pc = "start" -> "blocks"
      [] pc = "blocks" -> "tx"
      [] pc = "tx" -> "tx_by_addr"
      [] OTHER -> "done"

\* The order of the puts within one call: tx, tx-by-addr, and blocks last.
After(pc) ==
    CASE pc = "start" -> "tx"
      [] pc = "tx" -> "tx_by_addr"
      [] pc = "tx_by_addr" -> "blocks"
      [] OTHER -> "done"

\* No put is skipped: an empty batch is sent too.
Skipped_never(pc, slot, block) == FALSE

\* An empty batch is not sent.
Skipped(pc, slot, block) ==
    pc \in {"tx", "tx_by_addr"} /\ DOMAIN CellsOf(pc, slot, block) = {}

RECURSIVE NextPut(_, _, _)
\* The next put the call issues after `pc`, or "done".
NextPut(pc, slot, block) ==
    LET n == After(pc)
    IN IF n # "done" /\ Skipped(n, slot, block) THEN NextPut(n, slot, block) ELSE n

Idle == [pc |-> "idle", slot |-> SLOT_ZERO, block |-> <<>>]
NoRet == [op |-> "none"]

NumStarted == Cardinality(UNION {{<<s, b>> : b \in uploaded[s]} : s \in Slots})

\* The log is kept by SpecUploads only; elsewhere it stays off and empty.
NoLog == [on |-> FALSE, events |-> <<>>]
Logged(events) == IF log.on THEN [log EXCEPT !.events = @ \o events] ELSE log
NumCalls == Cardinality({i \in 1..Len(log.events) : log.events[i].ev = "call"})

\* The error of a put that fails, and what `?` makes of it.
StoreError == "PutFailed"
Failed(e) == Err(BigTableError(e))

Init ==
    /\ blocks = <<>>
    /\ tx = <<>>
    /\ tx_by_addr = <<>>
    /\ task = [t \in Tasks |-> Idle]
    /\ uploaded = [s \in Slots |-> {}]
    /\ ret = NoRet
    /\ log = NoLog

\* A put of the cells whose rows the table does not hold yet.
Written_absent_rows_only(pc, cells) ==
    /\ tx' = IF pc = "tx"
             THEN put_bincode_cells(tx, Restrict(cells, DOMAIN cells \ DOMAIN tx))
             ELSE tx
    /\ tx_by_addr' = IF pc = "tx_by_addr"
                      THEN put_bincode_cells(tx_by_addr,
                               Restrict(cells, DOMAIN cells \ DOMAIN tx_by_addr))
                      ELSE tx_by_addr
    /\ blocks' = IF pc = "blocks"
                 THEN put_bincode_cells(blocks, Restrict(cells, DOMAIN cells \ DOMAIN blocks))
                 ELSE blocks

\* A put after which the table holds the cells of the batch and no other row.
Written_clearing_table(pc, cells) ==
    /\ tx' = IF pc = "tx" THEN cells ELSE tx
    /\ tx_by_addr' = IF pc = "tx_by_addr" THEN cells ELSE tx_by_addr
    /\ blocks' = IF pc = "blocks" THEN cells ELSE blocks

\* The table a put at `pc` goes to, after the put of `cells`.
Written(pc, cells) ==
    /\ tx' = IF pc = "tx" THEN put_bincode_cells(tx, cells) ELSE tx
    /\ tx_by_addr' = IF pc = "tx_by_addr" THEN put_bincode_cells(tx_by_addr, cells)
                      ELSE tx_by_addr
    /\ blocks' = IF pc = "blocks" THEN put_bincode_cells(blocks, cells) ELSE blocks

\* A caller enters upload_confirmed_block(slot, block): the cells are built
\* and the first put is issued.
UploadStart(t, slot, block) ==
    /\ task[t].pc = "idle"
    /\ ret.op = "none"
    /\ block \in uploaded[slot] \/ NumStarted < MaxUploads
    /\ log.on => NumCalls < MaxCalls
    /\ task' = [task EXCEPT ![t] =
                    [pc |-> NextPut("start", slot, block), slot |-> slot, block |-> block]]
    /\ uploaded' = [uploaded EXCEPT ![slot] = @ \cup {block}]
    /\ ret' = NoRet
    /\ log' = Logged(<<[ev |-> "call", task |-> t, slot |-> slot, block |-> block],
                       [ev |-> "put", task |-> t,
                        table |-> NextPut("start", slot, block)]>>)
    /\ UNCHANGED <<blocks, tx, tx_by_addr>>

\* The put in flight succeeds: every cell is written, and the call goes on
\* to its next put, or returns Ok after the put to `blocks`.
PutOk(t) ==
    LET c == task[t]
        n == NextPut(c.pc, c.slot, c.block)
    IN /\ c.pc \in {"tx", "tx_by_addr", "blocks"}
       /\ Written(c.pc, CellsOf(c.pc, c.slot, c.block))
       /\ task' = [task EXCEPT ![t] = IF n = "done" THEN Idle ELSE [c EXCEPT !.pc = n]]
       /\ ret' = NoRet
       /\ log' = Logged(IF n = "done"
                          THEN <<[ev |-> "ret", task |-> t, failed |-> None,
                                  result |-> Ok("()")]>>
                          ELSE <<[ev |-> "put", task |-> t, table |-> n]>>)
       /\ UNCHANGED uploaded

\* The put in flight fails and the call issues it again.
PutFail_retrying(t) ==
    LET c == task[t]
        cells == CellsOf(c.pc, c.slot, c.block)
    IN /\ c.pc \in {"tx", "tx_by_addr", "blocks"}
       /\ \E keys \in SUBSET DOMAIN cells : Written(c.pc, Restrict(cells, keys))
       /\ log' = Logged(<<[ev |-> "put", task |-> t, table |-> c.pc]>>)
       /\ ret' = NoRet
       /\ UNCHANGED <<task, uploaded>>

\* The put in flight fails, or the process dies in it: any part of the batch
\* may have been written, and the call is over (`?` returns the error).
PutFail(t) ==
    LET c == task[t]
        cells == CellsOf(c.pc, c.slot, c.block)
    IN /\ c.pc \in {"tx", "tx_by_addr", "blocks"}
       /\ \E keys \in SUBSET DOMAIN cells : Written(c.pc, Restrict(cells, keys))
       /\ task' = [task EXCEPT ![t] = Idle]
       /\ ret' = NoRet
       /\ log' = Logged(<<[ev |-> "ret", task |-> t,
                           failed |-> Some([table |-> c.pc, err |-> StoreError]),
                           result |-> Failed(StoreError)]>>)
       /\ UNCHANGED uploaded

\* ------------------------------------------------------- read operations
\* Each read is taken on the rows as they are in one state of the store.

\* get_first_available_block
get_first_available_block ==
    LET keys == get_row_keys(blocks, None, None, 1)
    IN IF keys = <<>> THEN Ok(None) ELSE Ok(key_to_slot(keys[1]))

RECURSIVE FilterMapSlots(_)
\* filter_map(key_to_slot): the keys that parse, as slots, in order
FilterMapSlots(keys) ==
    IF keys = <<>> THEN <<>>
    ELSE (IF key_to_slot(Head(keys)).some THEN <<key_to_slot(Head(keys)).val>> ELSE <<>>)
         \o FilterMapSlots(Tail(keys))

\* The listing from the first row of the table, whatever the start slot.
get_confirmed_blocks_from_first_row(start_slot, limit) ==
    Ok(FilterMapSlots(get_row_keys(blocks, None, None, limit)))

\* get_confirmed_blocks
get_confirmed_blocks(start_slot, limit) ==
    Ok(FilterMapSlots(get_row_keys(blocks, Some(slot_to_key(start_slot)), None, limit)))

\* get_confirmed_block
get_confirmed_block(slot) ==
    LET block == get_bincode_cell(blocks, slot_to_key(slot))
    IN IF ~block.ok THEN Err(BigTableError(block.err)) ELSE Ok(block.val)

\* impl From<TransactionInfo> for TransactionStatus
TransactionStatus(info) ==
    [slot |-> info.slot,
     confirmations |-> None,
     status |-> IF info.err.some THEN Err(info.err.val) ELSE Ok("()"),
     err |-> info.err]

\* get_signature_status
get_signature_status(signature) ==
    LET info == get_bincode_cell(tx, signature)
    IN IF ~info.ok THEN Err(BigTableError(info.err)) ELSE Ok(TransactionStatus(info.val))

\* The transaction at the index, whatever its first signature.
Located_any_signature(info, block, signature) ==
    IF info.index >= Len(block) THEN Ok(None)
    ELSE Ok(Some([slot |-> info.slot, transaction |-> block[info.index + 1]]))

\* What get_confirmed_transaction returns once both rows are read.
Located(info, block, signature) ==
    IF info.index >= Len(block) THEN Ok(None)
    ELSE IF block[info.index + 1] # signature THEN Ok(None)
    ELSE Ok(Some([slot |-> info.slot, transaction |-> block[info.index + 1]]))

\* get_confirmed_transaction
get_confirmed_transaction(signature) ==
    LET info == get_bincode_cell(tx, signature)
    IN IF ~info.ok THEN Err(BigTableError(info.err))
       ELSE LET block == get_bincode_cell(blocks, slot_to_key(info.val.slot))
            IN IF ~block.ok THEN Err(BigTableError(block.err))
               ELSE Located(info.val, block.val, signature)

\* A cursor resolved through `tx` to (slot, index), or the default when absent.
Cursor(signature, default) ==
    IF ~signature.some THEN Ok(default)
    ELSE LET info == get_bincode_cell(tx, signature.val)
         IN IF ~info.ok THEN Err(BigTableError(info.err))
            ELSE Ok([slot |-> info.val.slot, index |-> U32(info.val.index)])

\* The before filter with > for >=: the cursor's own entry passes.
SkipBefore_exclusive(slot, index, first) ==
    slot = first.slot /\ SeqLess(first.index, U32(index))

\* "Filter out records before `before_transaction_index`":
\* slot == first_slot && index >= before_transaction_index
SkipBefore(slot, index, first) ==
    slot = first.slot /\ ~SeqLess(U32(index), first.index)

\* The until filter with < for <=: the cursor's own entry passes.
SkipUntil_exclusive(slot, index, last) ==
    slot = last.slot /\ SeqLess(U32(index), last.index)

\* "Filter out records after `until_transaction_index`":
\* slot == last_slot && index <= until_transaction_index
SkipUntil(slot, index, last) ==
    slot = last.slot /\ ~SeqLess(last.index, U32(index))

RECURSIVE ScanRows(_, _, _, _, _)
\* The 'outer loop over the scanned rows, at entry e of row r, with `infos`
\* collected so far; q holds the call's locals.  An emitted entry keeps the
\* index of its tx-by-addr record beside the fields of
\* ConfirmedTransactionStatusWithSignature.
ScanRows(rows, r, e, infos, q) ==
    IF r > Len(rows) THEN Ok(infos)
    ELSE LET parsed == key_to_slot(SubSeq(rows[r][1], q.prefix + 1, Len(rows[r][1])))
         IN IF ~parsed.some THEN Err(BigTableError("ObjectCorrupt"))
            ELSE LET slot == Not(parsed.val)
                     data == rows[r][2]
                 IN IF e > Len(data) THEN ScanRows(rows, r + 1, 1, infos, q)
                    ELSE IF SkipBefore(slot, data[e].index, q.first)
                         THEN ScanRows(rows, r, e + 1, infos, q)
                    ELSE IF SkipUntil(slot, data[e].index, q.last)
                         THEN ScanRows(rows, r, e + 1, infos, q)
                    ELSE LET pushed == Append(infos,
                                 [signature |-> data[e].signature, slot |-> slot,
                                  err |-> data[e].err, index |-> data[e].index])
                         IN IF Len(pushed) >= q.limit THEN Ok(pushed)
                            ELSE ScanRows(rows, r, e + 1, pushed, q)

\* get_confirmed_signatures_for_address, from the resolved cursors on
SignaturesFrom(address, first, last, limit) ==
    LET start == get_bincode_cell(tx_by_addr, AddrKey(address, first.slot))
    IN IF ~start.ok THEN Err(BigTableError(start.err))
       ELSE ScanRows(get_row_data(tx_by_addr,
                                  Some(AddrKey(address, first.slot)),
                                  Some(AddrKey(address, last.slot)),
                                  limit + Len(start.val)),
                     1, 1, <<>>,
                     [prefix |-> Len(address) + 1, first |-> first, last |-> last,
                      limit |-> limit])

\* get_confirmed_signatures_for_address
get_confirmed_signatures_for_address(address, before_signature, until_signature, limit) ==
    LET first == Cursor(before_signature, [slot |-> SLOT_MAX, index |-> U32(0)])
    IN IF ~first.ok THEN first
       ELSE LET last == Cursor(until_signature, [slot |-> SLOT_ZERO, index |-> U32_MAX])
            IN IF ~last.ok THEN last
               ELSE SignaturesFrom(address, first.val, last.val, limit)

Quiet == \A t \in Tasks : task[t].pc = "idle"
Cursors == {None} \cup {Some(sig) : sig \in Sigs}
Limits == 0..MaxLimit

\* A read is answered on the rows of this state.  Every content the tables
\* take while uploads are in flight they also have with none in flight (a
\* put that fails having written nothing), so reads are taken there.
Answered(r) ==
    /\ Quiet
    /\ ret.op = "none"
    /\ ret' = r
    /\ UNCHANGED <<blocks, tx, tx_by_addr, task, uploaded, log>>

CallFirstAvailableBlock ==
    Answered([op |-> "get_first_available_block", result |-> get_first_available_block])

CallConfirmedBlocks(start_slot, limit) ==
    Answered([op |-> "get_confirmed_blocks", start_slot |-> start_slot, limit |-> limit,
              result |-> get_confirmed_blocks(start_slot, limit)])

CallConfirmedBlock(slot) ==
    Answered([op |-> "get_confirmed_block", slot |-> slot,
              result |-> get_confirmed_block(slot)])

CallSignatureStatus(signature) ==
    Answered([op |-> "get_signature_status", signature |-> signature,
              result |-> get_signature_status(signature)])

CallConfirmedTransaction(signature) ==
    Answered([op |-> "get_confirmed_transaction", signature |-> signature,
              result |-> get_confirmed_transaction(signature)])

CallSignaturesForAddress(address, before, until, limit) ==
    Answered([op |-> "get_confirmed_signatures_for_address", address |-> address,
              before |-> before, until |-> until, limit |-> limit,
              result |-> get_confirmed_signatures_for_address(address, before, until, limit)])

\* The caller takes the answer.
Return ==
    /\ ret.op # "none"
    /\ ret' = NoRet
    /\ UNCHANGED <<blocks, tx, tx_by_addr, task, uploaded, log>>

Next ==
    \/ \E t \in Tasks, slot \in Slots, block \in Blocks : UploadStart(t, slot, block)
    \/ \E t \in Tasks : PutOk(t)
    \/ \E t \in Tasks : PutFail(t)
    \/ CallFirstAvailableBlock
    \/ \E slot \in Slots, limit \in Limits : CallConfirmedBlocks(slot, limit)
    \/ \E slot \in Slots : CallConfirmedBlock(slot)
    \/ \E sig \in Sigs : CallSignatureStatus(sig)
    \/ \E sig \in Sigs : CallConfirmedTransaction(sig)
    \/ \E address \in Addresses, before \in Cursors, until \in Cursors, limit \in Limits :
          CallSignaturesForAddress(address, before, until, limit)
    \/ Return

Spec == Init /\ [][Next]_vars

\* The upload calls alone, logged: at most MaxCalls calls from empty tables.
InitUploads ==
    /\ blocks = <<>>
    /\ tx = <<>>
    /\ tx_by_addr = <<>>
    /\ task = [t \in Tasks |-> Idle]
    /\ uploaded = [s \in Slots |-> {}]
    /\ ret = NoRet
    /\ log = [on |-> TRUE, events |-> <<>>]

NextUploads ==
    \/ \E t \in Tasks, slot \in Slots, block \in UploadBlocks : UploadStart(t, slot, block)
    \/ \E t \in Tasks : PutOk(t)
    \/ \E t \in Tasks : PutFail(t)

SpecUploads == InitUploads /\ [][NextUploads]_vars

\* The key codec alone: slot_to_key and key_to_slot applied to pairs of
\* slots whose limbs are drawn from CodecLimbs.
CodecLimbs == {0, 9, 10, LimbMax}
CodecSlots == {<<p, q, r, s>> : p \in CodecLimbs, q \in CodecLimbs,
                                r \in CodecLimbs, s \in CodecLimbs}

CallSlotToKey(a, b) ==
    Answered([op |-> "slot_to_key", a |-> a, b |-> b,
              key_a |-> slot_to_key(a), key_b |-> slot_to_key(b),
              complement_key_a |-> slot_to_key(Not(a)),
              complement_key_b |-> slot_to_key(Not(b)),
              slot_a |-> key_to_slot(slot_to_key(a))])

\* A pair of slots is encoded, once the last answer was taken.
CallCodec ==
    /\ ret.op = "none"
    /\ \E a \in CodecSlots, b \in CodecSlots : CallSlotToKey(a, b)

NextCodec ==
    \/ CallCodec
    \/ Return

SpecCodec == Init /\ [][NextCodec]_vars

\* ---------------------------------------------------------------- claims
IsCall(op) == ret.op = op
SigsCall == "get_confirmed_signatures_for_address"

\* No slot was handed to upload_confirmed_block with two different blocks.
OneBlockPerSlot == \A s \in Slots : Cardinality(uploaded[s]) <= 1

\* The addresses a transaction references that are no sysvar ids.
Referenced(sig) ==
    {a \in {account_keys(sig)[j] : j \in 1..Len(account_keys(sig))} : ~is_sysvar_id(a)}

\* The row of `address` at `slot` holds an entry with `sig`.
HasEntry(address, slot, sig) ==
    /\ AddrKey(address, slot) \in DOMAIN tx_by_addr
    /\ \E e \in 1..Len(tx_by_addr[AddrKey(address, slot)]) :
          tx_by_addr[AddrKey(address, slot)][e].signature = sig

\* C1: while no slot is uploaded with two different blocks, whatever the
\* interleaving of the uploads and wherever they fail, a blocks row never
\* exists without its indexes: every transaction of the block has its tx row,
\* and every non-sysvar address it references has the tx-by-addr row of that
\* slot with an entry carrying the signature.
C1_BlockNeverWithoutIndexes ==
    OneBlockPerSlot =>
        \A s \in Slots :
            slot_to_key(s) \in DOMAIN blocks =>
                \A i \in 1..Len(blocks[slot_to_key(s)]) :
                    LET sig == blocks[slot_to_key(s)][i]
                    IN /\ sig \in DOMAIN tx
                       /\ \A a \in Referenced(sig) : HasEntry(a, s, sig)

\* A block of three transactions is visible at one slot while an upload of
\* another slot died after part of its index writes.
C1_Witness ==
    /\ OneBlockPerSlot
    /\ Quiet
    /\ \E s \in Slots :
          /\ slot_to_key(s) \in DOMAIN blocks
          /\ Len(blocks[slot_to_key(s)]) = 3
          /\ \E o \in Slots \ {s} :
                /\ uploaded[o] # {}
                /\ slot_to_key(o) \notin DOMAIN blocks
                /\ \E sig \in DOMAIN tx : tx[sig].slot = o

\* C2: with the tx row of a signature present and the blocks row of the slot
\* it names missing, get_confirmed_transaction returns Ok(None), not an error.
C2_MissingBlockIsAbsent ==
    ( /\ IsCall("get_confirmed_transaction")
      /\ ret.signature \in DOMAIN tx
      /\ slot_to_key(tx[ret.signature].slot) \notin DOMAIN blocks )
    => ret.result = Ok(None)

\* The tables are what successful uploads of one block per slot leave, each
\* block holding a transaction that references `address`.
UploadedWith(address) ==
    /\ Quiet
    /\ OneBlockPerSlot
    /\ \E s \in Slots : uploaded[s] # {}
    /\ \A s \in Slots :
          uploaded[s] # {} =>
              /\ slot_to_key(s) \in DOMAIN blocks
              /\ blocks[slot_to_key(s)] \in uploaded[s]
              /\ \E i \in 1..Len(blocks[slot_to_key(s)]) :
                    address \in Referenced(blocks[slot_to_key(s)][i])

\* The number of entries stored for `address`, over all its rows.
EntryCount(address) ==
    LET rows == {s \in Slots : AddrKey(address, s) \in DOMAIN tx_by_addr}
        RECURSIVE Sum(_)
        Sum(S) == IF S = {} THEN 0
                  ELSE LET s == CHOOSE o \in S : TRUE
                       IN Len(tx_by_addr[AddrKey(address, s)]) + Sum(S \ {s})
    IN Sum(rows)

\* C3: after successful uploads at distinct slots, each with a transaction
\* referencing the address, the call with no cursors and a limit of at least
\* the number of entries succeeds and returns the address's entries, the entry
\* of a higher slot before the entry of a lower slot.
C3_NoCursorsDescending ==
    ( /\ IsCall(SigsCall)
      /\ ~ret.before.some
      /\ ~ret.until.some
      /\ UploadedWith(ret.address)
      /\ ret.limit >= EntryCount(ret.address) )
    => /\ ret.result.ok
       /\ Len(ret.result.val) = EntryCount(ret.address)
       /\ \A i, j \in 1..Len(ret.result.val) :
             i < j => ~SlotLess(ret.result.val[i].slot, ret.result.val[j].slot)

\* C4: every entry of a successful call with a before cursor lies strictly
\* before the position the cursor resolves to through tx: in a lower slot, or
\* in the cursor's slot at a lower index.
C4_StrictlyBeforeCursor ==
    ( /\ IsCall(SigsCall)
      /\ ret.before.some
      /\ ret.result.ok )
    => \A i \in 1..Len(ret.result.val) :
          LET e == ret.result.val[i]
              b == tx[ret.before.val]
          IN \/ SlotLess(e.slot, b.slot)
             \/ e.slot = b.slot /\ e.index < b.index

\* A call with a before cursor returns an entry of the cursor's own slot and
\* an entry of a lower slot.
C4_Witness ==
    /\ IsCall(SigsCall)
    /\ ret.before.some
    /\ ret.result.ok
    /\ \E i \in 1..Len(ret.result.val) :
          ret.result.val[i].slot = tx[ret.before.val].slot
    /\ \E i \in 1..Len(ret.result.val) :
          SlotLess(ret.result.val[i].slot, tx[ret.before.val].slot)

\* C5: every entry of a successful call with an until cursor lies strictly
\* after the position the cursor resolves to through tx: in a higher slot, or
\* in the cursor's slot at a higher index, also when both cursors resolve to
\* the same slot.
C5_StrictlyAfterCursor ==
    ( /\ IsCall(SigsCall)
      /\ ret.until.some
      /\ ret.result.ok )
    => \A i \in 1..Len(ret.result.val) :
          LET e == ret.result.val[i]
              u == tx[ret.until.val]
          IN \/ SlotLess(u.slot, e.slot)
             \/ e.slot = u.slot /\ e.index > u.index

\* Both cursors resolve to the same slot and the entry between them is
\* returned.
C5_Witness ==
    /\ IsCall(SigsCall)
    /\ ret.until.some
    /\ ret.before.some
    /\ ret.result.ok
    /\ tx[ret.before.val].slot = tx[ret.until.val].slot
    /\ Len(ret.result.val) = 1
    /\ ret.result.val[1].slot = tx[ret.until.val].slot

\* C6: the returned list is in descending slot order and, within one slot, in
\* descending in-block index order.
C6_DescendingSlotThenIndex ==
    ( /\ IsCall(SigsCall)
      /\ ret.result.ok )
    => \A i \in 1..(Len(ret.result.val) - 1) :
          LET e1 == ret.result.val[i]
              e2 == ret.result.val[i + 1]
          IN \/ SlotLess(e2.slot, e1.slot)
             \/ e1.slot = e2.slot /\ e1.index > e2.index

\* C7: a successful call returns at most `limit` entries, for limit = 0 too.
C7_AtMostLimit ==
    ( /\ IsCall(SigsCall)
      /\ ret.result.ok )
    => Len(ret.result.val) <= ret.limit

\* The tx row of the requested signature and the blocks row of its slot are
\* both there.
BothRows ==
    /\ IsCall("get_confirmed_transaction")
    /\ ret.signature \in DOMAIN tx
    /\ slot_to_key(tx[ret.signature].slot) \in DOMAIN blocks

IndexOutOfRange ==
    tx[ret.signature].index >= Len(blocks[slot_to_key(tx[ret.signature].slot)])

OtherSignatureAtIndex ==
    /\ ~IndexOutOfRange
    /\ blocks[slot_to_key(tx[ret.signature].slot)][tx[ret.signature].index + 1]
          # ret.signature

\* C8: with both rows present, an index beyond the block's transactions or a
\* transaction of another first signature at the index makes
\* get_confirmed_transaction return Ok(None), never an error.
C8_CorruptIndexIsAbsent ==
    (BothRows /\ (IndexOutOfRange \/ OtherSignatureAtIndex)) => ret.result = Ok(None)

\* A call finds another transaction at the index its tx row names.
C8_Witness == BothRows /\ OtherSignatureAtIndex

\* A call finds its tx row naming an index beyond the block.
C8_WitnessOutOfRange == BothRows /\ IndexOutOfRange

\* C9: get_confirmed_block on a slot without a blocks row fails with
\* BlockNotFound(slot).
C9_BlockNotFound ==
    ( /\ IsCall("get_confirmed_block")
      /\ slot_to_key(ret.slot) \notin DOMAIN blocks )
    => /\ ~ret.result.ok
       /\ ret.result.err.kind = "BlockNotFound"

\* C10: get_signature_status on a signature without a tx row fails with
\* SignatureNotFound; with the row there it returns a status that is failed
\* exactly when the stored err is present, its confirmations unknown.
C10_SignatureStatus ==
    IsCall("get_signature_status") =>
        IF ret.signature \notin DOMAIN tx
        THEN /\ ~ret.result.ok
             /\ ret.result.err.kind = "SignatureNotFound"
        ELSE /\ ret.result.ok
             /\ ~ret.result.val.status.ok <=> tx[ret.signature].err.some
             /\ ret.result.val.err = tx[ret.signature].err
             /\ ret.result.val.confirmations = None

\* ------------------------------------------------- claims on the call log
\* The calls of the log are named by the position of their "call" event.
CallIdx == {i \in 1..Len(log.events) : log.events[i].ev = "call"}

\* Where call i returned, or 0 while it is in flight.
RetIdx(i) ==
    LET js == {j \in (i + 1)..Len(log.events) :
                  log.events[j].ev = "ret" /\ log.events[j].task = log.events[i].task}
    IN IF js = {} THEN 0 ELSE CHOOSE j \in js : \A k \in js : j <= k

ReturnedOk(i) == RetIdx(i) # 0 /\ log.events[RetIdx(i)].result.ok
ReturnedErr(i) == RetIdx(i) # 0 /\ ~log.events[RetIdx(i)].result.ok

\* The tables call i put to, in the order of the puts.
PutsOf(i) ==
    LET last == IF RetIdx(i) = 0 THEN Len(log.events) ELSE RetIdx(i)
        IsPut(e) == e.ev = "put" /\ e.task = log.events[i].task
        Table(puts) == [k \in 1..Len(puts) |-> puts[k].table]
    IN Table(SelectSeq(SubSeq(log.events, i + 1, last), IsPut))

SigsOf(block) == {block[k] : k \in 1..Len(block)}

Tables == [blocks |-> blocks, tx |-> tx, tx_by_addr |-> tx_by_addr]
EmptyTables == [blocks |-> <<>>, tx |-> <<>>, tx_by_addr |-> <<>>]

\* The tables after an upload of (slot, block) that runs alone on T and succeeds.
RunAlone(T, slot, block) ==
    [tx |-> put_bincode_cells(T.tx, tx_cells(slot, block)),
     tx_by_addr |-> put_bincode_cells(T.tx_by_addr, tx_by_addr_cells(slot, block)),
     blocks |-> put_bincode_cells(T.blocks, blocks_cells(slot, block))]

\* The tables after call i, then call j, each run alone, from empty tables.
OneThenOther(i, j) ==
    RunAlone(RunAlone(EmptyTables, log.events[i].slot, log.events[i].block),
             log.events[j].slot, log.events[j].block)

\* The two calls of the log are uploads of different slots that both returned Ok.
TwoUploadsDone(i, j) ==
    /\ CallIdx = {i, j}
    /\ i < j
    /\ ReturnedOk(i)
    /\ ReturnedOk(j)
    /\ log.events[i].slot # log.events[j].slot

\* C11 (as claimed): two uploads of different slots, however their puts
\* interleave, leave the three tables as running them one after the other
\* does, in either order, whatever the two blocks are.
C11_IndependentAnyBlocks ==
    \A i \in CallIdx, j \in CallIdx :
        TwoUploadsDone(i, j) =>
            /\ Tables = OneThenOther(i, j)
            /\ Tables = OneThenOther(j, i)

\* C11 (amended): two uploads of different slots whose blocks have no
\* signature in common, however their puts interleave, leave the three
\* tables as running them one after the other does, in either order.
C11_IndependentDisjointBlocks ==
    \A i \in CallIdx, j \in CallIdx :
        /\ TwoUploadsDone(i, j)
        /\ SigsOf(log.events[i].block) \cap SigsOf(log.events[j].block) = {}
        => /\ Tables = OneThenOther(i, j)
           /\ Tables = OneThenOther(j, i)

\* Two uploads with transactions of their own, sharing an address and no
\* signature, ran interleaved and both returned Ok.
C11_Witness ==
    \E i \in CallIdx, j \in CallIdx :
        /\ TwoUploadsDone(i, j)
        /\ j < RetIdx(i)
        /\ log.events[i].block # <<>>
        /\ log.events[j].block # <<>>
        /\ SigsOf(log.events[i].block) \cap SigsOf(log.events[j].block) = {}
        /\ by_addr_keys(log.events[i].block) \cap by_addr_keys(log.events[j].block) # {}

\* The task that steps, was at its put to tx before.
StepsAtTx(t) == task[t].pc = "tx" /\ task'[t] # task[t]

\* C12 (as claimed): a tx row, once written, is never changed by a later put.
C12_FirstOccurrenceKept ==
    [][\A sig \in DOMAIN tx : sig \in DOMAIN tx' /\ tx'[sig] = tx[sig]]_vars

\* C12 (amended): the tx row of a signature records the occurrence last put.
\* No row is deleted; a row changes only in the tx put of an upload whose
\* block holds the signature, and then to that upload's slot, position and
\* err, also when the row was there before; a tx put that succeeds leaves
\* every signature of its block with that upload's slot, position and err.
C12_LastOccurrenceKept ==
    [][/\ DOMAIN tx \subseteq DOMAIN tx'
       /\ \A sig \in DOMAIN tx' :
             \/ sig \in DOMAIN tx /\ tx'[sig] = tx[sig]
             \/ \E t \in Tasks : \E i \in 1..Len(task[t].block) :
                   /\ StepsAtTx(t)
                   /\ task[t].block[i] = sig
                   /\ tx'[sig] = [slot |-> task[t].slot, index |-> i - 1,
                                  err |-> meta_err(sig)]
       /\ \A t \in Tasks :
             StepsAtTx(t) /\ task'[t].pc # "idle" =>
                \A i \in 1..Len(task[t].block) :
                   /\ task[t].block[i] \in DOMAIN tx'
                   /\ tx'[task[t].block[i]] =
                         [slot |-> task[t].slot, index |-> i - 1,
                          err |-> meta_err(task[t].block[i])]]_vars

\* An upload that returned Ok wrote a tx row; a later upload holding the same
\* signature at another slot or position returned Ok, and the row is the
\* later upload's.
C12_Witness ==
    \E i \in CallIdx, j \in CallIdx :
        /\ ReturnedOk(i)
        /\ RetIdx(i) < j
        /\ ReturnedOk(j)
        /\ \E sig \in SigsOf(log.events[i].block) \cap SigsOf(log.events[j].block) :
              /\ tx_cells(log.events[i].slot, log.events[i].block)[sig]
                    # tx_cells(log.events[j].slot, log.events[j].block)[sig]
              /\ tx[sig] = tx_cells(log.events[j].slot, log.events[j].block)[sig]

\* Task t steps in a call whose block has no transaction.
EmptyBlockStep(t) ==
    /\ task'[t] # task[t]
    /\ \/ task[t].pc # "idle" /\ task[t].block = <<>>
       \/ task'[t].pc # "idle" /\ task'[t].block = <<>>

\* C13: an upload of a block with no transaction issues one put, the put to
\* blocks, and none to tx or tx-by-addr (no empty batch either); none of its
\* steps changes tx or tx-by-addr.
C13_EmptyBlockOnePut ==
    /\ [](\A i \in CallIdx : log.events[i].block = <<>> => PutsOf(i) = <<"blocks">>)
    /\ [][\A t \in Tasks :
             EmptyBlockStep(t) => tx' = tx /\ tx_by_addr' = tx_by_addr]_vars

\* An upload of an empty block returned Ok, its blocks row is there, and the
\* index tables hold rows of another upload.
C13_Witness ==
    \E i \in CallIdx :
        /\ log.events[i].block = <<>>
        /\ ReturnedOk(i)
        /\ PutsOf(i) = <<"blocks">>
        /\ slot_to_key(log.events[i].slot) \in DOMAIN blocks
        /\ DOMAIN tx # {}
        /\ DOMAIN tx_by_addr # {}

\* ------------------------------------------------ claims on the read calls
\* The slots from `start_slot` on that have a blocks row.
StoredFrom(start_slot) ==
    {s \in Slots : slot_to_key(s) \in DOMAIN blocks /\ ~SlotLess(s, start_slot)}

\* C14: get_confirmed_blocks(start_slot, limit) returns, in ascending order,
\* the min(limit, n) lowest slots >= start_slot that have a blocks row, n
\* being the number of such slots.
C14_LowestSlotsFrom ==
    IsCall("get_confirmed_blocks") =>
        LET stored == StoredFrom(ret.start_slot)
            n == Cardinality(stored)
            r == ret.result
        IN /\ r.ok
           /\ Len(r.val) = IF ret.limit < n THEN ret.limit ELSE n
           /\ \A k \in 1..Len(r.val) : r.val[k] \in stored
           /\ \A k \in 1..(Len(r.val) - 1) : SlotLess(r.val[k], r.val[k + 1])
           /\ \A s \in stored :
                 (\A k \in 1..Len(r.val) : r.val[k] # s) =>
                    \A k \in 1..Len(r.val) : SlotLess(r.val[k], s)

\* Blocks are stored at slots 1 and u64::MAX, and the call from slot 1 with
\* limit 2 returned both, the start slot first.
C14_Witness ==
    /\ IsCall("get_confirmed_blocks")
    /\ ret.start_slot = SlotOf(1)
    /\ ret.limit = 2
    /\ ret.result = Ok(<<SlotOf(1), SLOT_MAX>>)

\* The log is an upload of block B1 that returned Ok, then an upload of the
\* same slot with block B2 that returned Ok.
Reuploaded(i, j) ==
    /\ CallIdx = {i, j}
    /\ ReturnedOk(i)
    /\ RetIdx(i) < j
    /\ ReturnedOk(j)
    /\ log.events[i].slot = log.events[j].slot

HoldsCells(table, cells, keys) ==
    \A k \in keys : k \in DOMAIN table /\ table[k] = cells[k]

\* C15: after an upload of slot s with B1 and then one with B2, both Ok,
\* every row the second upload wrote holds B2's value, and the rows only the
\* first wrote (tx rows of signatures absent from B2, tx-by-addr rows at s of
\* addresses absent from B2) are there with B1's value.
C15_LastWriteWinsPerRow ==
    \A i \in CallIdx, j \in CallIdx :
        Reuploaded(i, j) =>
            LET s == log.events[i].slot
                B1 == log.events[i].block
                B2 == log.events[j].block
            IN /\ HoldsCells(blocks, blocks_cells(s, B2), DOMAIN blocks_cells(s, B2))
               /\ HoldsCells(tx, tx_cells(s, B2), DOMAIN tx_cells(s, B2))
               /\ HoldsCells(tx_by_addr, tx_by_addr_cells(s, B2),
                             DOMAIN tx_by_addr_cells(s, B2))
               /\ HoldsCells(tx, tx_cells(s, B1),
                             DOMAIN tx_cells(s, B1) \ DOMAIN tx_cells(s, B2))
               /\ HoldsCells(tx_by_addr, tx_by_addr_cells(s, B1),
                             DOMAIN tx_by_addr_cells(s, B1) \ DOMAIN tx_by_addr_cells(s, B2))

\* A slot was uploaded again with a block that lacks a signature and an
\* address of the first block, and moves a signature they share.
C15_Witness ==
    \E i \in CallIdx, j \in CallIdx :
        /\ Reuploaded(i, j)
        /\ LET s == log.events[i].slot
               B1 == log.events[i].block
               B2 == log.events[j].block
           IN /\ DOMAIN tx_cells(s, B1) \ DOMAIN tx_cells(s, B2) # {}
              /\ DOMAIN tx_by_addr_cells(s, B1) \ DOMAIN tx_by_addr_cells(s, B2) # {}
              /\ \E sig \in SigsOf(B1) \cap SigsOf(B2) :
                    tx_cells(s, B1)[sig] # tx_cells(s, B2)[sig]

PutRank(table) == CASE table = "tx" -> 1 [] table = "tx_by_addr" -> 2 [] OTHER -> 3

\* Call i returned the error of its put to tx or to tx-by-addr.
FailedInIndexPut(i) ==
    /\ RetIdx(i) # 0
    /\ log.events[RetIdx(i)].failed.some
    /\ log.events[RetIdx(i)].failed.val.table \in {"tx", "tx_by_addr"}

\* C16: a call issues its puts in the order tx, tx-by-addr, blocks, each
\* table once at most.  A call whose put to tx or tx-by-addr fails returns
\* that store error, as BigTableError, with the failed put its last one: no
\* second try and no put to blocks.  A step of a call at its tx or tx-by-addr
\* put leaves blocks unchanged, and a slot for which no put to blocks was
\* issued has no blocks row.
C16_FailedIndexPutEndsCall ==
    /\ [](\A i \in CallIdx :
             LET puts == PutsOf(i) IN
             /\ \A k \in 1..(Len(puts) - 1) : PutRank(puts[k]) < PutRank(puts[k + 1])
             /\ FailedInIndexPut(i) =>
                   LET r == log.events[RetIdx(i)] IN
                   /\ r.result = Err(BigTableError(r.failed.val.err))
                   /\ puts[Len(puts)] = r.failed.val.table
                   /\ \A k \in 1..Len(puts) : puts[k] # "blocks")
    /\ [](\A s \in Slots :
             slot_to_key(s) \in DOMAIN blocks =>
                \E i \in CallIdx :
                   /\ log.events[i].slot = s
                   /\ \E k \in 1..Len(PutsOf(i)) : PutsOf(i)[k] = "blocks")
    /\ [][\A t \in Tasks :
             task[t].pc \in {"tx", "tx_by_addr"} /\ task'[t] # task[t] =>
                blocks' = blocks]_vars

\* An upload put its tx rows, failed in the put to tx-by-addr and returned
\* the error; its slot has no blocks row.
C16_Witness ==
    \E i \in CallIdx :
        /\ FailedInIndexPut(i)
        /\ PutsOf(i) = <<"tx", "tx_by_addr">>
        /\ log.events[RetIdx(i)].result = Err(BigTableError(StoreError))
        /\ HoldsCells(tx, tx_cells(log.events[i].slot, log.events[i].block),
                      SigsOf(log.events[i].block))
        /\ slot_to_key(log.events[i].slot) \notin DOMAIN blocks

\* The stored position (slot, index) lies strictly between the two cursors,
\* each resolved through its tx row; an absent cursor bounds nothing.
Between(slot, index, before, until) ==
    /\ before.some =>
          \/ SlotLess(slot, tx[before.val].slot)
          \/ slot = tx[before.val].slot /\ index < tx[before.val].index
    /\ until.some =>
          \/ SlotLess(tx[until.val].slot, slot)
          \/ slot = tx[until.val].slot /\ index > tx[until.val].index

\* The entries of one stored row that lie between the cursors, in row order.
RowBetween(address, slot, before, until) ==
    LET data == tx_by_addr[AddrKey(address, slot)]
        Entry(d) == [signature |-> d.signature, slot |-> slot, err |-> d.err,
                     index |-> d.index]
        In(d) == Between(slot, d.index, before, until)
        kept == SelectSeq(data, In)
    IN [k \in 1..Len(kept) |-> Entry(kept[k])]

RECURSIVE ScanOrder(_, _, _, _)
\* The stored entries of `address` between the cursors, in scan order: the
\* rows of `slots` from the highest slot down, each row in its stored order.
ScanOrder(address, slots, before, until) ==
    IF slots = {} THEN <<>>
    ELSE LET top == CHOOSE s \in slots : \A o \in slots : ~SlotLess(s, o)
         IN RowBetween(address, top, before, until)
            \o ScanOrder(address, slots \ {top}, before, until)

Eligible(address, before, until) ==
    ScanOrder(address, {s \in Slots : AddrKey(address, s) \in DOMAIN tx_by_addr},
              before, until)

\* C17: a successful call with limit >= 1 returns the first min(limit, E)
\* of the address's stored entries strictly between the two cursors, in scan
\* order, E being the number of those entries.
C17_FullPage ==
    ( /\ IsCall(SigsCall)
      /\ ret.result.ok
      /\ ret.limit >= 1 )
    => ret.result.val = Take(Eligible(ret.address, ret.before, ret.until), ret.limit)

\* C18: a successful call without until cursor that returned fewer entries
\* than its limit returned every entry the address has at slot 0 before the
\* before cursor, whatever the entry's index.
C18_ScanReachesSlotZero ==
    ( /\ IsCall(SigsCall)
      /\ ret.result.ok
      /\ ~ret.until.some
      /\ Len(ret.result.val) < ret.limit
      /\ AddrKey(ret.address, SLOT_ZERO) \in DOMAIN tx_by_addr )
    => LET atZero == RowBetween(ret.address, SLOT_ZERO, ret.before, None)
       IN \A e \in 1..Len(atZero) :
             \E k \in 1..Len(ret.result.val) : ret.result.val[k] = atZero[e]

\* ------------------------------------------------ claims on the key codec
HexDigits == (48..57) \cup (97..102)
IsKey(key) == Len(key) = 16 /\ \A k \in 1..Len(key) : key[k] \in HexDigits

\* C19: for slots a < b the key of a is lexically below the key of b and the
\* key of !a is lexically above the key of !b; every key is 16 lowercase
\* hexadecimal digits, sixteen '0' for slot 0 and sixteen 'f' for !0; and
\* key_to_slot gives the slot of a key back.
C19_KeyOrderAndRoundTrip ==
    IsCall("slot_to_key") =>
        /\ SlotLess(ret.a, ret.b) =>
              /\ KeyLess(ret.key_a, ret.key_b)
              /\ KeyLess(ret.complement_key_b, ret.complement_key_a)
        /\ IsKey(ret.key_a)
        /\ IsKey(ret.complement_key_a)
        /\ ret.a = SLOT_ZERO =>
              /\ ret.key_a = [k \in 1..16 |-> 48]
              /\ ret.complement_key_a = [k \in 1..16 |-> 102]
        /\ ret.slot_a = Some(ret.a)

\* Two slots whose lowest limbs are in the opposite order of the slots, the
\* lower one with a letter digit in its key, were encoded in order.
C19_Witness ==
    /\ IsCall("slot_to_key")
    /\ SlotLess(ret.a, ret.b)
    /\ ret.b[4] < ret.a[4]
    /\ \E k \in 1..Len(ret.key_a) : ret.key_a[k] >= 97
    /\ KeyLess(ret.key_a, ret.key_b)
    /\ KeyLess(ret.complement_key_b, ret.complement_key_a)

\* Call i returned Ok, and no other call of the log is for its slot or holds
\* a signature of its block.
UploadedUntouched(i) ==
    /\ ReturnedOk(i)
    /\ \A j \in CallIdx \ {i} :
          /\ log.events[j].slot # log.events[i].slot
          /\ SigsOf(log.events[j].block) \cap SigsOf(log.events[i].block) = {}

\* The last 16 characters of a tx-by-addr key: the key of the complemented slot.
SlotPart(key) == SubSeq(key, Len(key) - 15, Len(key))

\* C20: after such an upload of (slot, block), for the transaction at
\* position p with signature sig: the tx row of sig is (slot, p, err), and
\* every tx-by-addr entry carrying sig is under a key that ends in
\* slot_to_key(!slot), with index p and the same err; the entries of each
\* tx-by-addr row of the slot are in non-decreasing index order.
C20_IndexesAgree ==
    \A i \in CallIdx :
        UploadedUntouched(i) =>
            LET slot == log.events[i].slot
                block == log.events[i].block
            IN /\ \A p \in 1..Len(block) :
                     LET sig == block[p] IN
                     /\ sig \in DOMAIN tx
                     /\ tx[sig] = [slot |-> slot, index |-> p - 1, err |-> meta_err(sig)]
                     /\ \A key \in DOMAIN tx_by_addr :
                           \A e \in 1..Len(tx_by_addr[key]) :
                              tx_by_addr[key][e].signature = sig =>
                                 /\ SlotPart(key) = slot_to_key(Not(slot))
                                 /\ tx_by_addr[key][e].index = tx[sig].index
                                 /\ tx_by_addr[key][e].err = tx[sig].err
               /\ \A key \in DOMAIN tx_by_addr :
                     SlotPart(key) = slot_to_key(Not(slot)) =>
                        \A e \in 1..(Len(tx_by_addr[key]) - 1) :
                           tx_by_addr[key][e].index <= tx_by_addr[key][e + 1].index

\* Two uploads returned Ok, neither touching the other's slot or signatures,
\* and one of them left a tx-by-addr row with an entry of a failed
\* transaction.
C20_Witness ==
    \E i \in CallIdx, j \in CallIdx :
        /\ i # j
        /\ UploadedUntouched(i)
        /\ UploadedUntouched(j)
        /\ \E key \in DOMAIN tx_by_addr_cells(log.events[i].slot, log.events[i].block) :
              /\ key \in DOMAIN tx_by_addr
              /\ \E e \in 1..Len(tx_by_addr[key]) : tx_by_addr[key][e].err.some
====
